---- MODULE Spec2Model ----
(***************************************************************************)
(* Model of the multi-agent content pipeline (python-agents): the         *)
(* /generate handler of main.py, the LangGraph workflow of graph.py and    *)
(* the four agents' run_async methods.                                     *)
(*                                                                         *)
(* Texts are finite sequences of tokens; a token stands for one character  *)
(* or one unbroken word.  " " and "\n" are the whitespace tokens.  A       *)
(* Python dict is a function from keys to values, so that state.get(k, d)  *)
(* is Get(state, k, d).  An Optional value is <<>> (None) or <<v>>.        *)
(***************************************************************************)
EXTENDS Integers, Sequences, FiniteSets, TLC

(* ---------------------------------------------------------------------- *)
(* Bounds of the model                                                     *)
(* ---------------------------------------------------------------------- *)
\* most organic results one search returns
MaxResults == 1
\* cap on the number of fact-check executions explored in one job
MaxVerifyRuns == 5

(* ---------------------------------------------------------------------- *)
(* Program constants                                                       *)
(* ---------------------------------------------------------------------- *)
max_iterations == 3
DefaultTargetLength == 1000
PrdSliceLen == 500
KeyPointLen == 200
OrganicLimit == 10
PrdKeyPoints == 5
PrdFindings == 3

(* ---------------------------------------------------------------------- *)
(* Python helpers                                                          *)
(* ---------------------------------------------------------------------- *)
Whitespace == {" ", "\n"}

Min(a, b) == IF a < b THEN a ELSE b

\* s[:n]
Take(s, n) == SubSeq(s, 1, Min(n, Len(s)))

\* d.get(k, default)
Get(d, k, default) == IF k \in DOMAIN d THEN d[k] ELSE default

\* d[k] = v
Put(d, k, v) == [x \in (DOMAIN d) \cup {k} |-> IF x = k THEN v ELSE d[x]]

RECURSIVE LStrip(_)
LStrip(s) ==
    IF s = <<>> THEN <<>>
    ELSE IF Head(s) \in Whitespace THEN LStrip(Tail(s)) ELSE s

RECURSIVE RStrip(_)
RStrip(s) ==
    IF s = <<>> THEN <<>>
    ELSE IF s[Len(s)] \in Whitespace THEN RStrip(SubSeq(s, 1, Len(s) - 1)) ELSE s

\* str.strip()
Strip(s) == RStrip(LStrip(s))

RECURSIVE SplitFrom(_, _, _)
SplitFrom(s, cur, acc) ==
    IF s = <<>> THEN Append(acc, cur)
    ELSE IF Head(s) = "\n" THEN SplitFrom(Tail(s), <<>>, Append(acc, cur))
    ELSE SplitFrom(Tail(s), Append(cur, Head(s)), acc)

\* s.split('\n')
SplitLines(s) == SplitFrom(s, <<>>, <<>>)

RECURSIVE JoinLines(_)
\* '\n'.join(lines)
JoinLines(lines) ==
    IF lines = <<>> THEN <<>>
    ELSE IF Len(lines) = 1 THEN lines[1]
    ELSE lines[1] \o <<"\n">> \o JoinLines(Tail(lines))

\* len(s.split()): the number of maximal runs of non-whitespace tokens
WordCount(s) ==
    Cardinality({i \in 1..Len(s) :
        /\ s[i] \notin Whitespace
        /\ (i = 1 \/ s[i - 1] \in Whitespace)})

\* str.lower() on one token
LowerTok(t) ==
    CASE t = "PASS" -> "pass"
      [] t = "Please:" -> "please:"
      [] OTHER -> t

\* str.lower()
Lower(s) == [i \in 1..Len(s) |-> LowerTok(s[i])]

\* "request.x or default" for an Optional[int]
OrInt(opt, default) == IF opt = <<>> \/ opt = <<0>> THEN default ELSE opt[1]

\* "request.x or default" for an Optional[str]
OrStr(opt, default) == IF opt = <<>> \/ opt = <<"">> THEN default ELSE opt[1]

(* ---------------------------------------------------------------------- *)
(* Inputs                                                                  *)
(* ---------------------------------------------------------------------- *)
Topics == {<<>>, <<"X">>}
Prds == {<<>>, <<"P">>}
\* target_length and style are given together or both left out
Options == { [target_length |-> <<>>, style |-> <<>>],
             [target_length |-> <<500>>, style |-> <<"casual">>] }
\* a request with a PRD and with the options, or without a PRD and without
\* the options
Requests ==
    { [prd |-> <<>>, topic |-> t, target_length |-> <<>>, style |-> <<>>] :
        t \in Topics } \cup
    { [prd |-> p, topic |-> t, target_length |-> o.target_length, style |-> o.style] :
        p \in Prds \ {<<>>}, t \in Topics,
        o \in {x \in Options : x.target_length # <<>>} }

\* one organic result of the search collaborator
OrganicResults ==
    { [title |-> <<"T">>, snippet |-> <<"S">>, link |-> <<"L">>],
      [title |-> <<>>,    snippet |-> <<"S">>, link |-> <<"L">>] }

RECURSIVE SeqsUpTo(_, _)
SeqsUpTo(S, n) ==
    IF n = 0 THEN {<<>>}
    ELSE LET shorter == SeqsUpTo(S, n - 1)
         IN  shorter \cup {Append(q, x) : q \in shorter, x \in S}

\* what serpapi_client.search can do: raise, or return results
SearchOutcomes ==
    { [kind |-> "raise"] } \cup
    { [kind |-> "ok", organic_results |-> o, answer_box |-> <<>>] :
        o \in SeqsUpTo(OrganicResults, MaxResults) } \cup
    { [kind |-> "ok", organic_results |-> <<>>, answer_box |-> <<[answer |-> <<"A">>]>>] }

\* what the posts-table insert of main.py can do
InsertOutcomes == {"id", "nodata", "raise"}

(* ---------------------------------------------------------------------- *)
(* State                                                                   *)
(* ---------------------------------------------------------------------- *)
VARIABLES
    pc,            \* position of the request handler / the node to run next
    request,       \* the ContentRequest
    async_client,  \* the agents' AsyncOpenAI client is configured
    supabase,      \* the Supabase client is configured
    state,         \* the WorkflowState dict threaded through the graph
    post_id,       \* main.py's post_id: <<>> is None
    final_post,    \* the posts row's final_post column: <<>> if no row, else <<text>>
    response,      \* the ContentResponse returned: <<>> until returned
    writeRuns,     \* number of completed executions of the write node
    verifyRuns,    \* number of completed executions of the fact_check node
    failVerdicts,  \* number of fact_check executions that ended with "fail"
    lastCall,      \* how the latest call of the generation collaborator ended
    onlyRaised,    \* every call of the generation collaborator so far raised
    lastLog,       \* what the latest node did to the agent_logs table
    jobs,          \* the requests that run side by side: job id -> its handler
    agent_logs,    \* the rows of the agent_logs table those requests inserted
    probe,         \* a fact-check prompt built for one state: <<>> until built
    updates        \* number of updates of the posts row the handler executed

\* the variables of the requests side by side and of the prompt probe, which
\* a single request leaves alone
probes == <<jobs, agent_logs, probe>>

\* what the nodes of the workflow leave alone
aside == <<probes, updates>>

vars == <<pc, request, async_client, supabase, state, post_id, final_post,
          response, writeRuns, verifyRuns, failVerdicts, lastCall, onlyRaised,
          lastLog, jobs, agent_logs, probe, updates>>

NoState == [k \in {} |-> 0]

\* no row: the node did not get to its insert, or has no Supabase client
NoLog == [kind |-> "none", agent |-> "", post_id |-> <<>>]

Init ==
    /\ pc = "generate_content"
    /\ request \in Requests
    /\ async_client \in BOOLEAN
    /\ supabase \in BOOLEAN
    /\ state = NoState
    /\ post_id = <<>>
    /\ final_post = <<>>
    /\ response = <<>>
    /\ writeRuns = 0
    /\ verifyRuns = 0
    /\ failVerdicts = 0
    /\ lastCall = "no_call"
    /\ onlyRaised = TRUE
    /\ lastLog = NoLog
    /\ jobs = NoState
    /\ agent_logs = <<>>
    /\ probe = <<>>
    /\ updates = 0

\* a handler whose except branch answers like the normal return
ErrorResponseAsSuccess(msg) ==
    /\ pc' = "ABORTED"
    /\ response' = <<[content |-> <<>>, status |-> <<"success">>, metadata |-> <<>>]>>

\* a handler without the except branch: the exception leaves it
ErrorResponseReraises(msg) ==
    /\ pc' = "RAISED"
    /\ response' = response

\* the except branch of generate_content: an exception raised by the workflow
\* is turned into an error response
ErrorResponse(msg) ==
    /\ pc' = "ABORTED"
    /\ response' = <<[content |-> <<>>, status |-> <<"error", msg>>, metadata |-> <<>>]>>

(* ---------------------------------------------------------------------- *)
(* main.py: generate_content, up to workflow.ainvoke                       *)
(* ---------------------------------------------------------------------- *)
\* the workflow_state generate_content builds for a request
WorkflowStateOf(req, pid) ==
    [k \in {"prd", "topic", "target_length", "style", "post_id",
            "fact_check_iterations"} |->
        CASE k = "prd" -> req.prd
          [] k = "topic" -> req.topic
          [] k = "target_length" -> OrInt(req.target_length, DefaultTargetLength)
          [] k = "style" -> OrStr(req.style, "professional")
          [] k = "post_id" -> pid
          [] k = "fact_check_iterations" -> 0]

InitialWorkflowState(pid) == WorkflowStateOf(request, pid)

StartJob ==
    /\ pc = "generate_content"
    /\ \E ins \in InsertOutcomes :
        LET pid == IF supabase /\ ins = "id" THEN <<1>> ELSE <<>>
        IN  /\ post_id' = pid
            /\ final_post' = IF supabase /\ ins # "raise" THEN << <<>> >> ELSE <<>>
            /\ state' = InitialWorkflowState(pid)
    /\ pc' = "research"
    /\ UNCHANGED <<request, async_client, supabase, response,
                   writeRuns, verifyRuns, failVerdicts, lastCall, onlyRaised,
                   lastLog>>
    /\ UNCHANGED aside

(* ---------------------------------------------------------------------- *)
(* The agents' _log_to_supabase                                            *)
(* ---------------------------------------------------------------------- *)
\* what the insert into agent_logs can do; an agent without a Supabase
\* client does not call it
SinkOutcomes == IF supabase THEN {"inserted", "raise"} ELSE {"not_called"}

\* the row an agent inserts: pid is the post_id the agent puts into the
\* entry, <<>> when the entry has no post_id key
_log_to_supabase(agent, pid, sink) ==
    IF ~supabase THEN NoLog
    ELSE IF sink = "raise" THEN [kind |-> "failed", agent |-> agent, post_id |-> <<>>]
    ELSE [kind |-> "entry", agent |-> agent, post_id |-> pid]

\* a logging whose exception leaves the agent
LogEscapesOnRaise(sink) == supabase /\ sink = "raise"

\* the outcomes of the insert that leave _log_to_supabase as an exception:
\* none, "except Exception" covers the entry and the insert
LogEscapes(sink) == FALSE

(* ---------------------------------------------------------------------- *)
(* agents/researcher.py                                                    *)
(* ---------------------------------------------------------------------- *)
_search_serpapi(query, outcome) ==
    IF outcome.kind = "raise"
    THEN [k \in {"success", "query"} |->
            IF k = "success" THEN FALSE ELSE query]
    ELSE [k \in {"success", "results", "query"} |->
            CASE k = "success" -> TRUE
              [] k = "results" -> outcome
              [] k = "query" -> query]

\* the findings the loop over organic_results[:10] appends
RECURSIVE OrganicFindings(_)
OrganicFindings(rs) ==
    IF rs = <<>> THEN <<>>
    ELSE LET r == Head(rs)
         IN  (IF r.title # <<>> /\ r.snippet # <<>>
              THEN <<[title |-> r.title, snippet |-> r.snippet, source |-> r.link]>>
              ELSE <<>>) \o OrganicFindings(Tail(rs))

\* the key points the loop over organic_results[:10] appends
RECURSIVE OrganicKeyPoints(_)
OrganicKeyPoints(rs) ==
    IF rs = <<>> THEN <<>>
    ELSE LET r == Head(rs)
         IN  (IF r.title # <<>> /\ r.snippet # <<>>
              THEN <<Take(r.snippet, KeyPointLen)>>
              ELSE <<>>) \o OrganicKeyPoints(Tail(rs))

\* a failed search that leaves a note among the findings
FailedSearchDataWithNote ==
    [k \in {"findings", "key_points"} |->
        IF k = "findings"
        THEN <<[title |-> <<"error">>, snippet |-> <<"error">>, source |-> <<>>]>>
        ELSE <<>>]

\* what _extract_research_data returns for a search that did not succeed
FailedSearchData == [k \in {"findings", "key_points"} |-> <<>>]

_extract_research_data(search_response) ==
    IF ~search_response["success"]
    THEN FailedSearchData
    ELSE LET results == search_response["results"]
             organic == results.organic_results
             top == Take(organic, OrganicLimit)
             answer_text == IF results.answer_box = <<>> THEN <<>>
                            ELSE results.answer_box[1].answer
             direct == IF answer_text # <<>>
                       THEN <<[title |-> <<"Direct Answer">>, snippet |-> answer_text,
                               source |-> <<"answer_box">>]>>
                       ELSE <<>>
             direct_point == IF answer_text # <<>> THEN <<answer_text>> ELSE <<>>
         IN  [k \in {"findings", "key_points", "total_results"} |->
                CASE k = "findings" -> direct \o OrganicFindings(top)
                  [] k = "key_points" -> direct_point \o OrganicKeyPoints(top)
                  [] k = "total_results" -> Len(organic)]

\* a researcher that accepts any topic
TopicNeverMissing(topic) == FALSE

\* "not topic"
TopicMissing(topic) == topic = <<>>

\* ResearchAgent.run_async
Research ==
    /\ pc = "research"
    /\ LET topic == Get(state, "topic", <<>>)
       IN  IF TopicMissing(topic)
           THEN /\ ErrorResponse("Topic is required for research")
                /\ lastLog' = NoLog
                /\ UNCHANGED state
           ELSE \E outcome \in SearchOutcomes, sink \in SinkOutcomes :
                LET search_response == _search_serpapi(topic, outcome)
                    extracted == _extract_research_data(search_response)
                    research_data ==
                        Put(Put(extracted, "topic", topic),
                            "search_successful", search_response["success"])
                IN  /\ lastLog' = _log_to_supabase("researcher", <<>>, sink)
                    /\ IF LogEscapes(sink)
                       THEN /\ ErrorResponse("logging error")
                            /\ UNCHANGED state
                       ELSE /\ state' = Put(state, "research_data", research_data)
                            /\ pc' = "write"
                            /\ UNCHANGED response
    /\ UNCHANGED <<request, async_client, supabase, post_id, final_post,
                   writeRuns, verifyRuns, failVerdicts, lastCall, onlyRaised>>
    /\ UNCHANGED aside

(* ---------------------------------------------------------------------- *)
(* The generation collaborator (chat.completions.create)                   *)
(* ---------------------------------------------------------------------- *)
\* texts the collaborator may return as message.content to the writer
DraftTexts == { <<>>, <<" ", "\n">>, <<" ", "w", " ">>, <<"N/A">> }

\* texts the collaborator may return as message.content to the polisher
PolishTexts ==
    { <<>>, <<" ">>, <<"f">>,
      <<"f", "\n", "f", "\n", "f", "\n", "Please:", " ", "f">>,
      <<"\n", "\n", "\n", "please:">>,
      <<"f", "\n", "1.", " ", "instructions:">> }

\* the call raises, returns a message without content, or returns a text
GenOutcomes(texts) ==
    { [kind |-> "raise", text |-> <<>>], [kind |-> "none", text |-> <<>>] } \cup
    { [kind |-> "text", text |-> t] : t \in texts }

\* how a call ends for the agent: no client to call, the call raised, the
\* message had no content, or the collaborator answered
CallKind(llm) ==
    IF ~async_client THEN "unavailable"
    ELSE IF llm.kind \in {"raise", "none"} THEN llm.kind
    ELSE "answered"

\* the bookkeeping of one call of the generation collaborator
Called(llm) ==
    /\ lastCall' = CallKind(llm)
    /\ onlyRaised' = (onlyRaised /\ CallKind(llm) = "raise")

(* ---------------------------------------------------------------------- *)
(* agents/writer.py                                                        *)
(* ---------------------------------------------------------------------- *)
RECURSIVE Snippets(_)
Snippets(fs) ==
    IF fs = <<>> THEN <<>> ELSE <<Head(fs).snippet>> \o Snippets(Tail(fs))

_extract_prd(st) ==
    LET prd == Get(st, "prd", <<>>)
        research_data == Get(st, "research_data", NoState)
        nested == Get(research_data, "prd", <<>>)
        findings == Get(research_data, "findings", <<>>)
        key_points == Get(research_data, "key_points", <<>>)
        prd_context ==
            IF key_points # <<>> THEN JoinLines(Take(key_points, PrdKeyPoints))
            ELSE IF findings # <<>> THEN JoinLines(Snippets(Take(findings, PrdFindings)))
            ELSE <<>>
    IN  IF prd # <<>> THEN prd
        ELSE IF nested # <<>> THEN nested
        ELSE IF prd_context # <<>> THEN prd_context
        ELSE <<"No PRD or research data provided">>

\* the text returned when the writer has no client
WriterUnavailableText(prd, topic) ==
    <<"# ">> \o topic \o
    <<"\n", "\n", "[Blog post draft based on PRD]", "\n", "\n", "PRD Content:", "\n">> \o
    Take(prd, PrdSliceLen) \o <<"...">>

\* the text returned when the writer's call fails
WriterErrorText(prd, topic) ==
    <<"# ">> \o topic \o
    <<"\n", "\n", "[Error generating content: e]", "\n", "\n", "PRD:", "\n">> \o
    Take(prd, PrdSliceLen)

_generate_blog_post_async(prd, topic, llm) ==
    IF ~async_client THEN WriterUnavailableText(prd, topic)
    ELSE IF llm.kind = "text" THEN Strip(llm.text)
    ELSE WriterErrorText(prd, topic)

\* a writer whose handler misses the message without content
WriterEscapesOnNone(llm) == async_client /\ llm.kind = "none"

\* the outcomes of the call that leave _generate_blog_post_async as an
\* exception: none, "except Exception" covers the call and the strip()
WriterEscapes(llm) == FALSE

\* a writer that hands on a state without the research data
WriteDropsResearch ==
    /\ pc = "write"
    /\ \E llm \in GenOutcomes(DraftTexts), sink \in SinkOutcomes :
        LET draft_content ==
                _generate_blog_post_async(_extract_prd(state), Get(state, "topic", <<>>), llm)
        IN  /\ Called(llm)
            /\ lastLog' = _log_to_supabase("writer", <<>>, sink)
            /\ state' = Put(Put(state, "draft_content", draft_content),
                            "research_data", FailedSearchData)
            /\ writeRuns' = writeRuns + 1
            /\ pc' = "fact_check"
    /\ UNCHANGED <<request, async_client, supabase, post_id, final_post,
                   verifyRuns, failVerdicts, response>>
    /\ UNCHANGED aside

\* a graph whose write node leads to polish when it ran after a failed check
WriteSkipsCheck ==
    /\ pc = "write"
    /\ \E llm \in GenOutcomes(DraftTexts), sink \in SinkOutcomes :
        LET draft_content ==
                _generate_blog_post_async(_extract_prd(state), Get(state, "topic", <<>>), llm)
        IN  /\ Called(llm)
            /\ lastLog' = _log_to_supabase("writer", <<>>, sink)
            /\ state' = Put(state, "draft_content", draft_content)
            /\ writeRuns' = writeRuns + 1
            /\ pc' = IF "fact_check_status" \in DOMAIN state THEN "polish"
                     ELSE "fact_check"
    /\ UNCHANGED <<request, async_client, supabase, post_id, final_post,
                   verifyRuns, failVerdicts, response>>
    /\ UNCHANGED aside

\* WriterAgent.run_async
Write ==
    /\ pc = "write"
    /\ \E llm \in GenOutcomes(DraftTexts), sink \in SinkOutcomes :
        LET topic == Get(state, "topic", <<>>)
            prd == _extract_prd(state)
            draft_content == _generate_blog_post_async(prd, topic, llm)
        IN  /\ Called(llm)
            /\ IF WriterEscapes(llm)
               THEN /\ ErrorResponse("writer error")
                    /\ lastLog' = NoLog
                    /\ UNCHANGED <<state, writeRuns>>
               ELSE /\ lastLog' = _log_to_supabase("writer", <<>>, sink)
                    /\ IF LogEscapes(sink)
                       THEN /\ ErrorResponse("logging error")
                            /\ UNCHANGED <<state, writeRuns>>
                       ELSE /\ state' = Put(state, "draft_content", draft_content)
                            /\ writeRuns' = writeRuns + 1
                            /\ pc' = "fact_check"
                            /\ UNCHANGED response
    /\ UNCHANGED <<request, async_client, supabase, post_id, final_post,
                   verifyRuns, failVerdicts>>
    /\ UNCHANGED aside

(* ---------------------------------------------------------------------- *)
(* agents/fact_checker.py                                                  *)
(* ---------------------------------------------------------------------- *)
\* a JSON value: t is its type, v its content (a text, or a list of strings)
JNull == [t |-> "null", v |-> <<>>]
JNum == [t |-> "num", v |-> <<>>]
JMissing == [t |-> "missing", v |-> <<>>]
JStr(s) == [t |-> "str", v |-> s]
JList(l) == [t |-> "list", v |-> l]

\* result.get(k, default) on the parsed JSON object
JGet(obj, k, default) == IF obj[k].t = "missing" THEN default ELSE obj[k]

JsonStatuses ==
    {JMissing, JNull, JStr(<<"pass">>), JStr(<<"fail">>), JStr(<<"PASS">>),
     JStr(<<"unsure">>)}

JsonContents ==
    {JMissing, JNull, JNum, JStr(<<>>), JStr(<<" ">>), JStr(<<"N/A">>), JStr(<<"v">>)}

JsonIssues == {JMissing, JNull, JList(<<"i">>)}

\* what the fact-checker's call can produce: an exception, a message without
\* content, a text that is not JSON, JSON that is not an object, or an object
AllCheckOutcomes ==
    { [kind |-> k, status |-> JMissing, corrected_content |-> JMissing,
       issues |-> JMissing] : k \in {"raise", "none", "not_json", "not_object"} } \cup
    { [kind |-> "object", status |-> s, corrected_content |-> c, issues |-> i] :
        s \in JsonStatuses, c \in JsonContents, i \in JsonIssues }

\* the objects in which at most one field is not as the prompt asks for it:
\* a verdict, a corrected text or no text, a list of issues
UsualObjects ==
    { o \in AllCheckOutcomes :
        /\ o.kind = "object"
        /\ o.status \in {JStr(<<"pass">>), JStr(<<"fail">>)}
        /\ o.corrected_content \in {JStr(<<"v">>), JMissing}
        /\ o.issues = JList(<<"i">>) }

CheckOutcomes ==
    { o \in AllCheckOutcomes :
        \/ o.kind # "object"
        \/ \E u \in UsualObjects :
              \/ o.corrected_content = u.corrected_content /\ o.issues = u.issues
              \/ o.status = u.status /\ o.issues = u.issues
              \/ o.status = u.status /\ o.corrected_content = u.corrected_content }

\* a failed check that loses the draft
CheckFailedDropsContent(draft_content) ==
    [content |-> <<>>, status |-> "fail", issues |-> JList(<<"error">>)]

\* the tuple both except branches return
CheckFailed(draft_content) ==
    [content |-> draft_content, status |-> "fail", issues |-> JList(<<"error">>)]

\* a fact-checker that records the collaborator's verdict as it came
KeepStatus(status) == status

\* "if status not in ['pass', 'fail']: status = 'fail'"
NormalStatus(status) == IF status \notin {"pass", "fail"} THEN "fail" ELSE status

\* a fact-checker that fails every draft while it has no client
CheckSkippedFails(draft_content) ==
    [content |-> draft_content, status |-> "fail", issues |-> JList(<<>>)]

\* the tuple returned without a client: the draft passes unchecked
CheckSkipped(draft_content) ==
    [content |-> draft_content, status |-> "pass", issues |-> JList(<<>>)]

_fact_check_content_async(draft_content, llm) ==
    IF ~async_client
    THEN CheckSkipped(draft_content)
    ELSE IF llm.kind # "object" THEN CheckFailed(draft_content)
    ELSE LET sv == JGet(llm, "status", JStr(<<"fail">>))
             cv == JGet(llm, "corrected_content", JStr(draft_content))
             iv == JGet(llm, "issues", JList(<<>>))
         IN  IF sv.t # "str" THEN CheckFailed(draft_content)
             ELSE IF cv.t = "num" THEN CheckFailed(draft_content)
             ELSE [content |->
                      IF cv.t = "null" \/ cv.v = <<>> \/ Strip(cv.v) = <<>>
                                       \/ cv.v = <<"N/A">>
                      THEN draft_content ELSE cv.v,
                   status |-> NormalStatus(Lower(sv.v)[1]),
                   issues |-> iv]

\* a conditional edge without the iteration bound
RouteWithoutBound(st) ==
    IF Get(st, "fact_check_status", "fail") = "pass" THEN "polish" ELSE "write"

\* a conditional edge that gives up one iteration late
RouteOneLate(st) ==
    LET status == Get(st, "fact_check_status", "fail")
        iterations == Get(st, "fact_check_iterations", 0)
    IN  IF status = "pass" THEN "polish"
        ELSE IF iterations > max_iterations THEN "polish"
        ELSE "write"

\* a conditional edge that gives up one iteration early
RouteOneEarly(st) ==
    LET status == Get(st, "fact_check_status", "fail")
        iterations == Get(st, "fact_check_iterations", 0)
    IN  IF status = "pass" THEN "polish"
        ELSE IF iterations >= max_iterations - 1 THEN "polish"
        ELSE "write"

\* a conditional edge that sends a failed check back to research
RouteBackToResearch(st) ==
    LET status == Get(st, "fact_check_status", "fail")
        iterations == Get(st, "fact_check_iterations", 0)
    IN  IF status = "pass" THEN "polish"
        ELSE IF iterations >= max_iterations THEN "polish"
        ELSE "research"

\* a fact-checker that forgets to count
SameIterations(current_iterations) == current_iterations

\* "new_iterations = current_iterations + 1"
NewIterations(current_iterations) == current_iterations + 1

\* graph.py: the conditional edge after fact_check
should_continue_to_polish(st) ==
    LET status == Get(st, "fact_check_status", "fail")
        iterations == Get(st, "fact_check_iterations", 0)
    IN  IF status = "pass" THEN "polish"
        ELSE IF iterations >= max_iterations THEN "polish"
        ELSE "write"

\* FactCheckerAgent.run_async, followed by the conditional edge
FactCheck ==
    /\ pc = "fact_check"
    /\ verifyRuns < MaxVerifyRuns
    /\ \E llm \in CheckOutcomes, sink \in SinkOutcomes :
        LET draft_content == Get(state, "draft_content", <<>>)
            current_iterations == Get(state, "fact_check_iterations", 0)
            checked == _fact_check_content_async(draft_content, llm)
            new_iterations == NewIterations(current_iterations)
            new_state ==
                Put(Put(Put(state, "fact_checked_content", checked.content),
                        "fact_check_status", checked.status),
                    "fact_check_iterations", new_iterations)
        IN  /\ Called(llm)
            /\ IF checked.issues.t \in {"null", "num"}
               THEN /\ ErrorResponse("object has no len()")
                    /\ lastLog' = NoLog
                    /\ UNCHANGED <<state, verifyRuns, failVerdicts>>
               ELSE /\ lastLog' = _log_to_supabase("fact_checker", <<>>, sink)
                    /\ IF LogEscapes(sink)
                       THEN /\ ErrorResponse("logging error")
                            /\ UNCHANGED <<state, verifyRuns, failVerdicts>>
                       ELSE /\ state' = new_state
                            /\ verifyRuns' = verifyRuns + 1
                            /\ failVerdicts' =
                                 failVerdicts +
                                 (IF checked.status = "fail" THEN 1 ELSE 0)
                            /\ pc' = should_continue_to_polish(new_state)
                            /\ UNCHANGED response
    /\ UNCHANGED <<request, async_client, supabase, post_id, final_post, writeRuns>>
    /\ UNCHANGED aside

(* ---------------------------------------------------------------------- *)
(* agents/polisher.py                                                      *)
(* ---------------------------------------------------------------------- *)
instruction_markers ==
    << "please:", "instructions:", "return the polished", "do not include",
       "improve readability", "enhance the", "fix any grammar",
       "optimize sentence", "ensure the content", "make the introduction",
       "strengthen the conclusion", "ensure consistent formatting",
       "maintain all factual" >>

\* any(marker in line_lower for marker in markers)
AnyMarker(line_lower, markers) ==
    \E i \in 1..Len(line_lower), m \in 1..Len(markers) : line_lower[i] = markers[m]

\* the line at 0-based index i of n lines starts the trailing instructions
StopsAt(line, i, n) ==
    LET line_lower == Lower(Strip(line))
        late == 10 * i > 7 * n
    IN  /\ \/ (line_lower # <<>> /\ Head(line_lower) = "please:")
           \/ (line_lower # <<>> /\ Head(line_lower) = "1."
                 /\ AnyMarker(line_lower, instruction_markers))
           \/ (late /\ AnyMarker(line_lower, Take(instruction_markers, 3)))
        /\ late

RECURSIVE CleanFrom(_, _)
\* the lines kept by the loop, starting at 0-based index i
CleanFrom(lines, i) ==
    IF i >= Len(lines) THEN <<>>
    ELSE IF StopsAt(lines[i + 1], i, Len(lines)) THEN <<>>
    ELSE <<lines[i + 1]>> \o CleanFrom(lines, i + 1)

\* the cleaning of the collaborator's text
CleanPolished(polished_content) ==
    Strip(JoinLines(CleanFrom(SplitLines(polished_content), 0)))

_polish_content_async(content, llm) ==
    IF ~async_client THEN content
    ELSE IF llm.kind = "text" THEN CleanPolished(llm.text)
    ELSE content

\* a polisher that always polishes the draft
NeverUsable(text) == FALSE

\* the text is truthy, not blank and not 'N/A'
Usable(text) == text # <<>> /\ Strip(text) # <<>> /\ text # <<"N/A">>

\* PolisherAgent.run_async
Polish ==
    /\ pc = "polish"
    /\ \E llm \in GenOutcomes(PolishTexts), sink \in SinkOutcomes :
        LET fact_checked_content == Get(state, "fact_checked_content", <<>>)
            draft_content == Get(state, "draft_content", <<>>)
            style == Get(state, "style", "professional")
            first_choice == IF Usable(fact_checked_content)
                            THEN fact_checked_content ELSE draft_content
            content_to_polish == IF ~Usable(first_choice)
                                 THEN draft_content ELSE first_choice
            final_content == _polish_content_async(content_to_polish, llm)
            word_count == IF final_content # <<>> THEN WordCount(final_content) ELSE 0
            metadata == [word_count |-> word_count, style |-> style,
                         status |-> "completed"]
        IN  /\ Called(llm)
            /\ lastLog' = _log_to_supabase("polisher", Get(state, "post_id", <<>>), sink)
            /\ IF LogEscapes(sink)
               THEN /\ ErrorResponse("logging error")
                    /\ UNCHANGED state
               ELSE /\ state' = Put(Put(state, "final_content", final_content),
                                    "metadata", <<metadata>>)
                    /\ pc' = "END"
                    /\ UNCHANGED response
    /\ UNCHANGED <<request, async_client, supabase, post_id, final_post,
                   writeRuns, verifyRuns, failVerdicts>>
    /\ UNCHANGED aside

(* ---------------------------------------------------------------------- *)
(* main.py: generate_content, after workflow.ainvoke returned              *)
(* ---------------------------------------------------------------------- *)
UpdateOutcomes == {"data", "nodata", "raise"}

\* a handler that answers with an error when the update of the post fails
FinishFailsOnUpdate ==
    /\ pc = "END"
    /\ \E upd \in UpdateOutcomes :
        LET final_content == Get(state, "final_content", <<>>)
            updating == post_id # <<>> /\ supabase /\ final_content # <<>>
        IN  /\ updates' = updates + (IF updating THEN 1 ELSE 0)
            /\ IF updating /\ upd = "raise"
               THEN /\ ErrorResponse("update error")
                    /\ UNCHANGED final_post
               ELSE /\ pc' = "DONE"
                    /\ final_post' = IF updating /\ upd = "data"
                                     THEN <<final_content>> ELSE final_post
                    /\ response' = <<[content |-> final_content,
                                      status |-> <<"success">>,
                                      metadata |-> Get(state, "metadata", <<>>)]>>
    /\ UNCHANGED <<request, async_client, supabase, state, post_id,
                   writeRuns, verifyRuns, failVerdicts, lastCall, onlyRaised,
                   lastLog>>
    /\ UNCHANGED probes

\* a handler that updates the post whatever the final text is
FinishUpdatesEmpty ==
    /\ pc = "END"
    /\ LET final_content == Get(state, "final_content", <<>>)
           updating == post_id # <<>> /\ supabase
       IN  /\ updates' = updates + (IF updating THEN 1 ELSE 0)
           /\ \E upd \in UpdateOutcomes :
                final_post' = IF updating /\ upd = "data"
                              THEN <<final_content>> ELSE final_post
           /\ response' = <<[content |-> final_content, status |-> <<"success">>,
                             metadata |-> Get(state, "metadata", <<>>)]>>
    /\ pc' = "DONE"
    /\ UNCHANGED <<request, async_client, supabase, state, post_id,
                   writeRuns, verifyRuns, failVerdicts, lastCall, onlyRaised,
                   lastLog>>
    /\ UNCHANGED probes

\* generate_content after workflow.ainvoke returned: the update of the post
\* is executed for a post id, a Supabase client and a final text
Finish ==
    /\ pc = "END"
    /\ LET final_content == Get(state, "final_content", <<>>)
           updating == post_id # <<>> /\ supabase /\ final_content # <<>>
       IN  /\ updates' = updates + (IF updating THEN 1 ELSE 0)
           /\ \E upd \in UpdateOutcomes :
                final_post' = IF updating /\ upd = "data"
                              THEN <<final_content>> ELSE final_post
           /\ response' = <<[content |-> final_content, status |-> <<"success">>,
                             metadata |-> Get(state, "metadata", <<>>)]>>
    /\ pc' = "DONE"
    /\ UNCHANGED <<request, async_client, supabase, state, post_id,
                   writeRuns, verifyRuns, failVerdicts, lastCall, onlyRaised,
                   lastLog>>
    /\ UNCHANGED probes

Next ==
    \/ StartJob
    \/ Research
    \/ Write
    \/ FactCheck
    \/ Polish
    \/ Finish

Spec == Init /\ [][Next]_vars

(* ---------------------------------------------------------------------- *)
(* Cancellation of the request task                                        *)
(* ---------------------------------------------------------------------- *)
\* a handler that saves the text it has when it is cancelled
OnCancelledSavePartial ==
    /\ pc' = "CANCELLED"
    /\ final_post' = <<Get(state, "draft_content", <<>>)>>
    /\ UNCHANGED <<request, async_client, supabase, state, post_id, response,
                   writeRuns, verifyRuns, failVerdicts, lastCall, onlyRaised,
                   lastLog>>
    /\ UNCHANGED aside

\* CancelledError is not an Exception: it passes the agents' handlers and
\* the except branch of generate_content, so the handler ends there, without
\* a response and without the update of the post
OnCancelled ==
    /\ pc' = "CANCELLED"
    /\ UNCHANGED <<request, async_client, supabase, state, post_id, final_post,
                   response, writeRuns, verifyRuns, failVerdicts, lastCall,
                   onlyRaised, lastLog>>
    /\ UNCHANGED aside

\* the task is cancelled while it waits in workflow.ainvoke: the awaits of
\* the handler are all inside the nodes
Cancel ==
    /\ pc \in {"research", "write", "fact_check", "polish"}
    /\ OnCancelled

NextOrCancel ==
    \/ Next
    \/ Cancel

CancelSpec == Init /\ [][NextOrCancel]_vars

\* the event loop runs every step of a started request
FairSpec == Spec /\ WF_vars(Next)

\* the research data run_async stores for a search outcome
ResearchDataOf(topic, outcome) ==
    LET search_response == _search_serpapi(topic, outcome)
    IN  Put(Put(_extract_research_data(search_response), "topic", topic),
            "search_successful", search_response["success"])

(* ---------------------------------------------------------------------- *)
(* Several requests side by side: one workflow, one set of agents          *)
(* ---------------------------------------------------------------------- *)
\* the requests in flight: FastAPI runs generate_content once per request,
\* as tasks of one event loop, on the module's workflow
JobIds == {"a", "b"}

JobRequest(j) ==
    [prd |-> <<>>, topic |-> IF j = "a" THEN <<"X">> ELSE <<"Y">>,
     target_length |-> <<>>, style |-> <<>>]

\* the id the posts table gives the row of a request
JobPostId(j) == IF j = "a" THEN <<1>> ELSE <<2>>

\* what the collaborators do for the requests side by side: the search
\* fails or finds one result, the writer's and the polisher's calls raise,
\* the fact-checker's answer is a pass without a corrected text
ConcSearchOutcomes ==
    { o \in SearchOutcomes :
        \/ o.kind = "raise"
        \/ o.kind = "ok" /\ Len(o.organic_results) = 1
                         /\ o.organic_results[1].title # <<>> }
ConcGenOutcomes == { o \in GenOutcomes({}) : o.kind = "raise" }
ConcCheckOutcomes ==
    { o \in CheckOutcomes :
        /\ o.kind = "object"
        /\ o.status = JStr(<<"pass">>)
        /\ o.corrected_content = JMissing
        /\ o.issues = JList(<<"i">>) }

NewJob == [pc |-> "generate_content", state |-> NoState, response |-> <<>>,
           final_post |-> <<>>, trail |-> <<>>]

ConcInit ==
    /\ pc = "generate_content"
    /\ request = JobRequest("a")
    /\ async_client = TRUE
    /\ supabase = TRUE
    /\ state = NoState
    /\ post_id = <<>>
    /\ final_post = <<>>
    /\ response = <<>>
    /\ writeRuns = 0
    /\ verifyRuns = 0
    /\ failVerdicts = 0
    /\ lastCall = "no_call"
    /\ onlyRaised = TRUE
    /\ lastLog = NoLog
    /\ jobs = [j \in JobIds |-> NewJob]
    /\ agent_logs = <<>>
    /\ probe = <<>>
    /\ updates = 0

\* a workflow whose nodes all work on the state of the first request
StateOfFirst(j) == jobs["a"].state

\* the state a node of request j is given: workflow_state is a local of the
\* request's generate_content, and ainvoke threads it through the nodes
StateOf(j) == jobs[j].state

\* a table that returns the latest row first
SinkInsertFirst(rows, row) == <<row>> \o rows

\* supabase.table("agent_logs").insert(log_entry).execute()
SinkInsert(rows, row) == Append(rows, row)

\* the agent's logging, awaited by run_async before the node returns
Recorded(j, agent, pid, sink) ==
    agent_logs' =
        IF _log_to_supabase(agent, pid, sink).kind = "entry"
        THEN SinkInsert(agent_logs, [agent |-> agent, job |-> j, post_id |-> pid])
        ELSE agent_logs

\* request j goes on with the record rec; the single-request variables stay
Continue(j, rec) ==
    /\ jobs' = [jobs EXCEPT ![j] = rec]
    /\ UNCHANGED <<pc, request, async_client, supabase, state, post_id, final_post,
                   response, writeRuns, verifyRuns, failVerdicts, lastCall,
                   onlyRaised, lastLog, probe, updates>>

\* the except branch of generate_content for request j
JobError(j, msg) ==
    [jobs[j] EXCEPT !.pc = "ABORTED",
                    !.response = <<[content |-> <<>>, status |-> <<"error", msg>>,
                                    metadata |-> <<>>]>>]

\* generate_content up to workflow.ainvoke
JobStart(j) ==
    /\ jobs[j].pc = "generate_content"
    /\ Continue(j, [jobs[j] EXCEPT !.pc = "research",
                                   !.state = WorkflowStateOf(JobRequest(j), JobPostId(j)),
                                   !.final_post = << <<>> >>])
    /\ UNCHANGED agent_logs

\* ResearchAgent.run_async for request j
JobResearch(j) ==
    /\ jobs[j].pc = "research"
    /\ LET st == StateOf(j)
           topic == Get(st, "topic", <<>>)
       IN  IF TopicMissing(topic)
           THEN /\ Continue(j, JobError(j, "Topic is required for research"))
                /\ UNCHANGED agent_logs
           ELSE \E outcome \in ConcSearchOutcomes, sink \in SinkOutcomes :
                /\ Recorded(j, "researcher", <<>>, sink)
                /\ Continue(j, [jobs[j] EXCEPT
                        !.pc = "write",
                        !.state = Put(st, "research_data", ResearchDataOf(topic, outcome)),
                        !.trail = Append(@, "researcher")])

\* WriterAgent.run_async for request j
JobWrite(j) ==
    /\ jobs[j].pc = "write"
    /\ \E llm \in ConcGenOutcomes, sink \in SinkOutcomes :
        LET st == StateOf(j)
            draft_content ==
                _generate_blog_post_async(_extract_prd(st), Get(st, "topic", <<>>), llm)
        IN  /\ Recorded(j, "writer", <<>>, sink)
            /\ Continue(j, [jobs[j] EXCEPT
                    !.pc = "fact_check",
                    !.state = Put(st, "draft_content", draft_content),
                    !.trail = Append(@, "writer")])

\* FactCheckerAgent.run_async for request j, followed by the conditional edge
JobFactCheck(j) ==
    /\ jobs[j].pc = "fact_check"
    /\ \E llm \in ConcCheckOutcomes, sink \in SinkOutcomes :
        LET st == StateOf(j)
            checked == _fact_check_content_async(Get(st, "draft_content", <<>>), llm)
            new_state ==
                Put(Put(Put(st, "fact_checked_content", checked.content),
                        "fact_check_status", checked.status),
                    "fact_check_iterations",
                    NewIterations(Get(st, "fact_check_iterations", 0)))
        IN  IF checked.issues.t \in {"null", "num"}
            THEN /\ Continue(j, JobError(j, "object has no len()"))
                 /\ UNCHANGED agent_logs
            ELSE /\ Recorded(j, "fact_checker", <<>>, sink)
                 /\ Continue(j, [jobs[j] EXCEPT
                        !.pc = should_continue_to_polish(new_state),
                        !.state = new_state,
                        !.trail = Append(@, "fact_checker")])

\* PolisherAgent.run_async for request j
JobPolish(j) ==
    /\ jobs[j].pc = "polish"
    /\ \E llm \in ConcGenOutcomes, sink \in SinkOutcomes :
        LET st == StateOf(j)
            fact_checked_content == Get(st, "fact_checked_content", <<>>)
            draft_content == Get(st, "draft_content", <<>>)
            content_to_polish == IF Usable(fact_checked_content)
                                 THEN fact_checked_content ELSE draft_content
            final_content == _polish_content_async(content_to_polish, llm)
            metadata == [word_count |-> IF final_content # <<>>
                                        THEN WordCount(final_content) ELSE 0,
                         style |-> Get(st, "style", "professional"),
                         status |-> "completed"]
        IN  /\ Recorded(j, "polisher", Get(st, "post_id", <<>>), sink)
            /\ Continue(j, [jobs[j] EXCEPT
                    !.pc = "END",
                    !.state = Put(Put(st, "final_content", final_content),
                                  "metadata", <<metadata>>),
                    !.trail = Append(@, "polisher")])

\* generate_content after workflow.ainvoke returned, for request j
JobFinish(j) ==
    /\ jobs[j].pc = "END"
    /\ LET final_content == Get(StateOf(j), "final_content", <<>>)
       IN  Continue(j, [jobs[j] EXCEPT
                !.pc = "DONE",
                !.final_post = IF final_content # <<>>
                               THEN <<final_content>> ELSE @,
                !.response = <<[content |-> final_content, status |-> <<"success">>,
                                metadata |-> Get(StateOf(j), "metadata", <<>>)]>>])
    /\ UNCHANGED agent_logs

ConcNext ==
    \E j \in JobIds :
        \/ JobStart(j)
        \/ JobResearch(j)
        \/ JobWrite(j)
        \/ JobFactCheck(j)
        \/ JobPolish(j)
        \/ JobFinish(j)

ConcSpec == ConcInit /\ [][ConcNext]_vars

(* ---------------------------------------------------------------------- *)
(* The prompts of the two fact-checkers                                    *)
(* ---------------------------------------------------------------------- *)
\* "has_research" of _fact_check_content_async: the context is not blank,
\* that is research_data is not empty, and there is at least one finding
has_research(research_data) ==
    /\ research_data # NoState
    /\ Len(Get(research_data, "findings", <<>>)) > 0

\* the prompt _fact_check_content_async builds: against the research data
\* with has_research, else the lenient one
PromptAsync(research_data) ==
    IF has_research(research_data) THEN "contradictions_only" ELSE "lenient"

\* the prompt _fact_check_content builds: it has one prompt only, which
\* asks to flag every claim that the research does not verify
PromptSync(research_data) == "verify_against_research"

\* agents that never get the synchronous client
ClientNeverSet == FALSE

\* self.client: __init__ sets client and async_client from the same key, and
\* the module imports OpenAI and AsyncOpenAI together or neither
client == async_client

\* _fact_check_content: what it makes of the collaborator's answer
_fact_check_content(draft_content, llm) ==
    IF ~client
    THEN [content |-> draft_content, status |-> "pass", issues |-> JList(<<>>)]
    ELSE IF llm.kind \in {"raise", "none"}
    THEN [content |-> draft_content, status |-> "fail", issues |-> JList(<<"error">>)]
    ELSE IF llm.kind \in {"not_json", "not_object"}
    THEN [content |-> draft_content, status |-> "fail", issues |-> JList(<<"error">>)]
    ELSE LET status == JGet(llm, "status", JStr(<<"fail">>))
             fact_checked_content == JGet(llm, "corrected_content", JStr(draft_content))
             issues == JGet(llm, "issues", JList(<<>>))
             blank == \/ fact_checked_content.t = "null"
                      \/ fact_checked_content.v = <<>>
                      \/ Strip(fact_checked_content.v) = <<>>
                      \/ fact_checked_content.v = <<"N/A">>
         IN  IF status.t # "str" \/ fact_checked_content.t = "num"
             THEN [content |-> draft_content, status |-> "fail",
                   issues |-> JList(<<"error">>)]
             ELSE [content |-> IF blank THEN draft_content ELSE fact_checked_content.v,
                   status |-> IF Lower(status.v)[1] \notin {"pass", "fail"}
                              THEN "fail" ELSE Lower(status.v)[1],
                   issues |-> issues]

\* the states a fact_check node can be given: after research and write
ProbeStates ==
    { Put(Put(InitialWorkflowState(<<>>), "research_data", ResearchDataOf(<<"X">>, o)),
          "draft_content", d) :
        o \in SearchOutcomes, d \in {<<"w">>, <<"N/A">>, <<"f", " ", "w">>} }

ProbeInit ==
    /\ pc = "fact_check"
    /\ request = [prd |-> <<"P">>, topic |-> <<"X">>, target_length |-> <<>>,
                  style |-> <<>>]
    /\ async_client = TRUE
    /\ supabase = FALSE
    /\ state \in ProbeStates
    /\ post_id = <<>>
    /\ final_post = <<>>
    /\ response = <<>>
    /\ writeRuns = 1
    /\ verifyRuns = 0
    /\ failVerdicts = 0
    /\ lastCall = "answered"
    /\ onlyRaised = FALSE
    /\ lastLog = NoLog
    /\ jobs = NoState
    /\ agent_logs = <<>>
    /\ probe = <<>>
    /\ updates = 0

\* FactCheckerAgent.run up to the result of _fact_check_content
ProbeSync ==
    /\ probe = <<>>
    /\ \E llm \in CheckOutcomes :
        LET checked == _fact_check_content(Get(state, "draft_content", <<>>), llm)
        IN  probe' = <<[sync |-> TRUE,
                        prompt |-> PromptSync(Get(state, "research_data", NoState)),
                        kind |-> llm.kind,
                        verdict |-> llm.status,
                        completed |-> (checked.issues.t \notin {"null", "num"}),
                        status |-> checked.status,
                        content |-> checked.content]>>
    /\ UNCHANGED <<pc, request, async_client, supabase, state, post_id, final_post,
                   response, writeRuns, verifyRuns, failVerdicts, lastCall,
                   onlyRaised, lastLog, jobs, agent_logs, updates>>

\* FactCheckerAgent.run_async up to the result of _fact_check_content_async
ProbeAsync ==
    /\ probe = <<>>
    /\ \E llm \in CheckOutcomes :
        LET checked == _fact_check_content_async(Get(state, "draft_content", <<>>), llm)
        IN  probe' = <<[sync |-> FALSE,
                        prompt |-> PromptAsync(Get(state, "research_data", NoState)),
                        kind |-> llm.kind,
                        verdict |-> llm.status,
                        completed |-> (checked.issues.t \notin {"null", "num"}),
                        status |-> checked.status,
                        content |-> checked.content]>>
    /\ UNCHANGED <<pc, request, async_client, supabase, state, post_id, final_post,
                   response, writeRuns, verifyRuns, failVerdicts, lastCall,
                   onlyRaised, lastLog, jobs, agent_logs, updates>>

ProbeNext ==
    \/ ProbeSync
    \/ ProbeAsync

PromptSpec == ProbeInit /\ [][ProbeNext]_vars

(* ---------------------------------------------------------------------- *)
(* The writer's request to the generation collaborator                     *)
(* ---------------------------------------------------------------------- *)
\* "findings[:5]" of the writer's research context
PromptFindings == 5

\* the lines "i. title: snippet" of the research context
ResearchContext(findings) ==
    LET top == Take(findings, PromptFindings)
    IN  [i \in 1..Len(top) |-> [n |-> i, title |-> top[i].title,
                                snippet |-> top[i].snippet]]

\* a writer that hands the checked text back to the collaborator
WriterRequestWithFeedback(st) ==
    LET research_data == Get(st, "research_data", NoState)
        target_length == Get(st, "target_length", 1000)
        research_context == ResearchContext(Get(research_data, "findings", <<>>))
    IN  IF ~async_client THEN <<>>
        ELSE <<[topic |-> Get(st, "topic", <<>>),
                target_length |-> target_length,
                style |-> Get(st, "style", "professional"),
                prd |-> _extract_prd(st) \o Get(st, "fact_checked_content", <<>>),
                research_context |-> research_context,
                limited_note |-> (research_context = <<>>),
                max_tokens |-> ((target_length * 13) \div 10) + 200]>>

\* what WriterAgent.run_async sends to chat.completions.create for a state:
\* the values the prompt is formatted from and max_tokens; <<>> without a
\* client, when nothing is sent
WriterRequest(st) ==
    LET research_data == Get(st, "research_data", NoState)
        topic == Get(st, "topic", <<>>)
        target_length == Get(st, "target_length", 1000)
        style == Get(st, "style", "professional")
        prd == _extract_prd(st)
        research_context ==
            IF research_data # NoState
            THEN ResearchContext(Get(research_data, "findings", <<>>))
            ELSE <<>>
    IN  IF ~async_client THEN <<>>
        ELSE <<[topic |-> topic,
                target_length |-> target_length,
                style |-> style,
                prd |-> prd,
                research_context |-> research_context,
                limited_note |-> (research_context = <<>>),
                max_tokens |-> ((target_length * 13) \div 10) + 200]>>

\* the states the write node is given first: after research
FirstWriteStates ==
    { Put(WorkflowStateOf(r, <<>>), "research_data", ResearchDataOf(r.topic, o)) :
        r \in {x \in Requests : ~TopicMissing(x.topic)}, o \in SearchOutcomes }

\* the states the write node is given: after research, or again after a
\* fact_check with a fail verdict below the iteration bound
WriteStates ==
    FirstWriteStates \cup
    { Put(Put(Put(Put(st, "draft_content", <<"w">>),
                  "fact_checked_content", c),
              "fact_check_status", "fail"),
          "fact_check_iterations", n) :
        st \in FirstWriteStates, c \in {<<"w">>, <<"v">>},
        n \in 1..(max_iterations - 1) }

\* the keys the writer is meant to read
DraftInputs == {"prd", "topic", "target_length", "style", "research_data"}

\* two states agree on the writer's inputs
SameDraftInputs(s, t) ==
    \A k \in DraftInputs :
        /\ (k \in DOMAIN s) = (k \in DOMAIN t)
        /\ k \in DOMAIN s => s[k] = t[k]

\* two write nodes, each given a state; the states agree on the writer's
\* inputs
DraftInit ==
    /\ pc = "write"
    /\ request \in {x \in Requests : ~TopicMissing(x.topic)}
    /\ async_client \in BOOLEAN
    /\ supabase = FALSE
    /\ state \in {st \in WriteStates :
                    /\ st["topic"] = request.topic
                    /\ st["prd"] = request.prd
                    /\ (async_client \/ st \in FirstWriteStates)}
    /\ post_id = <<>>
    /\ final_post = <<>>
    /\ response = <<>>
    /\ writeRuns = Get(state, "fact_check_iterations", 0)
    /\ verifyRuns = Get(state, "fact_check_iterations", 0)
    /\ failVerdicts = Get(state, "fact_check_iterations", 0)
    /\ lastCall = "no_call"
    /\ onlyRaised = FALSE
    /\ lastLog = NoLog
    /\ jobs \in { [t \in {"twin"} |-> [state |-> st, asked |-> FALSE, request |-> <<>>]] :
                    st \in {x \in WriteStates :
                              /\ SameDraftInputs(x, state)
                              /\ (async_client \/ x \in FirstWriteStates)} }
    /\ agent_logs = <<>>
    /\ probe = <<>>
    /\ updates = 0

\* WriterAgent.run_async up to the call, on the first state
DraftAsks ==
    /\ probe = <<>>
    /\ probe' = <<[request |-> WriterRequest(state)]>>
    /\ UNCHANGED <<pc, request, async_client, supabase, state, post_id, final_post,
                   response, writeRuns, verifyRuns, failVerdicts, lastCall,
                   onlyRaised, lastLog, jobs, agent_logs, updates>>

\* WriterAgent.run_async up to the call, on the second state
TwinAsks ==
    /\ ~jobs["twin"].asked
    /\ jobs' = [jobs EXCEPT !["twin"].asked = TRUE,
                            !["twin"].request = WriterRequest(jobs["twin"].state)]
    /\ UNCHANGED <<pc, request, async_client, supabase, state, post_id, final_post,
                   response, writeRuns, verifyRuns, failVerdicts, lastCall,
                   onlyRaised, lastLog, agent_logs, probe, updates>>

DraftNext ==
    \/ DraftAsks
    \/ TwinAsks

DraftSpec == DraftInit /\ [][DraftNext]_vars

(* ---------------------------------------------------------------------- *)
(* graph.py: create_workflow and create_workflow_async, node by node       *)
(* ---------------------------------------------------------------------- *)
\* a node that raised: the exception leaves invoke / ainvoke
NodeRaised(st, msg) ==
    [pc |-> "RAISED", state |-> st, log |-> NoLog, error |-> msg]

\* a node that returned the state; the graph goes on at the node next
NodeReturned(st, next, log) ==
    [pc |-> next, state |-> st, log |-> log, error |-> ""]

\* ResearchAgent.run
ResearcherRun(st, outcome, sink) ==
    LET topic == Get(st, "topic", <<>>)
    IN  IF topic = <<>> THEN NodeRaised(st, "Topic is required for research")
        ELSE LET search_response == _search_serpapi(topic, outcome)
                 research_data ==
                     Put(Put(_extract_research_data(search_response), "topic", topic),
                         "search_successful", search_response["success"])
             IN  NodeReturned(Put(st, "research_data", research_data), "write",
                              _log_to_supabase("researcher", <<>>, sink))

\* ResearchAgent.run_async
ResearcherRunAsync(st, outcome, sink) ==
    LET topic == Get(st, "topic", <<>>)
    IN  IF TopicMissing(topic) THEN NodeRaised(st, "Topic is required for research")
        ELSE NodeReturned(Put(st, "research_data", ResearchDataOf(topic, outcome)),
                          "write",
                          IF supabase THEN _log_to_supabase("researcher", <<>>, sink)
                          ELSE NoLog)

\* WriterAgent._generate_blog_post
_generate_blog_post(prd, topic, llm) ==
    IF ~client THEN
        <<"# ">> \o topic \o
        <<"\n", "\n", "[Blog post draft based on PRD]", "\n", "\n", "PRD Content:", "\n">> \o
        Take(prd, PrdSliceLen) \o <<"...">>
    ELSE IF llm.kind = "text" THEN Strip(llm.text)
    ELSE <<"# ">> \o topic \o
         <<"\n", "\n", "[Error generating content: e]", "\n", "\n", "PRD:", "\n">> \o
         Take(prd, PrdSliceLen)

\* WriterAgent.run
WriterRun(st, llm, sink) ==
    LET topic == Get(st, "topic", <<>>)
        prd == _extract_prd(st)
        draft_content == _generate_blog_post(prd, topic, llm)
    IN  NodeReturned(Put(st, "draft_content", draft_content), "fact_check",
                     _log_to_supabase("writer", <<>>, sink))

\* WriterAgent.run_async
WriterRunAsync(st, llm, sink) ==
    LET topic == Get(st, "topic", <<>>)
        prd == _extract_prd(st)
        draft_content == _generate_blog_post_async(prd, topic, llm)
    IN  NodeReturned(Put(st, "draft_content", draft_content), "fact_check",
                     IF supabase THEN _log_to_supabase("writer", <<>>, sink)
                     ELSE NoLog)

\* FactCheckerAgent.run, followed by the conditional edge
FactCheckerRun(st, llm, sink) ==
    LET draft_content == Get(st, "draft_content", <<>>)
        current_iterations == Get(st, "fact_check_iterations", 0)
        checked == _fact_check_content(draft_content, llm)
        new_iterations == current_iterations + 1
        new_state ==
            Put(Put(Put(st, "fact_checked_content", checked.content),
                    "fact_check_status", checked.status),
                "fact_check_iterations", new_iterations)
    IN  IF checked.issues.t \in {"null", "num"}
        THEN NodeRaised(st, "object has no len()")
        ELSE NodeReturned(new_state, should_continue_to_polish(new_state),
                          _log_to_supabase("fact_checker", <<>>, sink))

\* FactCheckerAgent.run_async, followed by the conditional edge
FactCheckerRunAsync(st, llm, sink) ==
    LET draft_content == Get(st, "draft_content", <<>>)
        current_iterations == Get(st, "fact_check_iterations", 0)
        checked == _fact_check_content_async(draft_content, llm)
        new_iterations == NewIterations(current_iterations)
        new_state ==
            Put(Put(Put(st, "fact_checked_content", checked.content),
                    "fact_check_status", checked.status),
                "fact_check_iterations", new_iterations)
    IN  IF checked.issues.t \in {"null", "num"}
        THEN NodeRaised(st, "object has no len()")
        ELSE NodeReturned(new_state, should_continue_to_polish(new_state),
                          IF supabase THEN _log_to_supabase("fact_checker", <<>>, sink)
                          ELSE NoLog)

\* PolisherAgent._polish_content
_polish_content(content, llm) ==
    IF ~client THEN content
    ELSE IF llm.kind = "text" THEN CleanPolished(llm.text)
    ELSE content

\* the content the polisher works on, the same lines in run and run_async
ContentToPolish(st) ==
    LET fact_checked_content == Get(st, "fact_checked_content", <<>>)
        draft_content == Get(st, "draft_content", <<>>)
        first_choice == IF Usable(fact_checked_content)
                        THEN fact_checked_content ELSE draft_content
    IN  IF ~Usable(first_choice) THEN draft_content ELSE first_choice

\* the state the polisher returns for a final text
Polished(st, final_content) ==
    Put(Put(st, "final_content", final_content),
        "metadata",
        <<[word_count |-> IF final_content # <<>> THEN WordCount(final_content) ELSE 0,
           style |-> Get(st, "style", "professional"),
           status |-> "completed"]>>)

\* PolisherAgent.run
PolisherRun(st, llm, sink) ==
    NodeReturned(Polished(st, _polish_content(ContentToPolish(st), llm)), "END",
                 _log_to_supabase("polisher", Get(st, "post_id", <<>>), sink))

\* PolisherAgent.run_async
PolisherRunAsync(st, llm, sink) ==
    NodeReturned(Polished(st, _polish_content_async(ContentToPolish(st), llm)), "END",
                 IF supabase
                 THEN _log_to_supabase("polisher", Get(st, "post_id", <<>>), sink)
                 ELSE NoLog)

\* the two compiled workflows
Workflows == {"sync", "async"}

\* a workflow invoked on a state: it starts at the entry point research
Invoked(st) ==
    [pc |-> "research", state |-> st, log |-> NoLog, error |-> "", trail |-> <<>>]

\* both workflows are invoked on the same state, with the same clients
TwinInit ==
    /\ pc = "research"
    /\ request \in Requests
    /\ async_client \in BOOLEAN
    /\ supabase \in BOOLEAN
    /\ post_id \in (IF supabase THEN {<<>>, <<1>>} ELSE {<<>>})
    /\ state = WorkflowStateOf(request, post_id)
    /\ final_post = <<>>
    /\ response = <<>>
    /\ writeRuns = 0
    /\ verifyRuns = 0
    /\ failVerdicts = 0
    /\ lastCall = "no_call"
    /\ onlyRaised = TRUE
    /\ lastLog = NoLog
    /\ jobs = [w \in Workflows |-> Invoked(state)]
    /\ agent_logs = <<>>
    /\ probe = <<>>
    /\ updates = 0

\* both workflows are at the node
BothAt(node) == \A w \in Workflows : jobs[w].pc = node

\* each workflow ran its node: ran[w] is what the node of workflow w returned
TwinRan(node, ran) ==
    /\ jobs' = [w \in Workflows |->
                  [pc |-> ran[w].pc, state |-> ran[w].state, log |-> ran[w].log,
                   error |-> ran[w].error, trail |-> Append(jobs[w].trail, node)]]
    /\ UNCHANGED <<pc, request, async_client, supabase, state, post_id, final_post,
                   response, writeRuns, verifyRuns, failVerdicts, lastCall,
                   onlyRaised, lastLog, agent_logs, probe, updates>>

\* the research nodes, given the same outcome of the search
TwinResearch ==
    /\ BothAt("research")
    /\ \E outcome \in SearchOutcomes, sink \in SinkOutcomes :
        TwinRan("research",
                [w \in Workflows |->
                    IF w = "sync" THEN ResearcherRun(jobs[w].state, outcome, sink)
                    ELSE ResearcherRunAsync(jobs[w].state, outcome, sink)])

\* the write nodes, given the same outcome of the call
TwinWrite ==
    /\ BothAt("write")
    /\ \E llm \in GenOutcomes(DraftTexts), sink \in SinkOutcomes :
        TwinRan("write",
                [w \in Workflows |->
                    IF w = "sync" THEN WriterRun(jobs[w].state, llm, sink)
                    ELSE WriterRunAsync(jobs[w].state, llm, sink)])

\* the fact_check nodes, given the same outcome of the call
TwinFactCheck ==
    /\ BothAt("fact_check")
    /\ \A w \in Workflows : Get(jobs[w].state, "fact_check_iterations", 0) < MaxVerifyRuns
    /\ \E llm \in CheckOutcomes, sink \in SinkOutcomes :
        TwinRan("fact_check",
                [w \in Workflows |->
                    IF w = "sync" THEN FactCheckerRun(jobs[w].state, llm, sink)
                    ELSE FactCheckerRunAsync(jobs[w].state, llm, sink)])

\* the polish nodes, given the same outcome of the call
TwinPolish ==
    /\ BothAt("polish")
    /\ \E llm \in GenOutcomes(PolishTexts), sink \in SinkOutcomes :
        TwinRan("polish",
                [w \in Workflows |->
                    IF w = "sync" THEN PolisherRun(jobs[w].state, llm, sink)
                    ELSE PolisherRunAsync(jobs[w].state, llm, sink)])

TwinNext ==
    \/ TwinResearch
    \/ TwinWrite
    \/ TwinFactCheck
    \/ TwinPolish

TwinSpec == TwinInit /\ [][TwinNext]_vars

(* ---------------------------------------------------------------------- *)
(* Properties                                                              *)
(* ---------------------------------------------------------------------- *)
Terminal == pc \in {"DONE", "ABORTED"}

\* the state's iteration counter, 0 while the key is absent
Iterations == Get(state, "fact_check_iterations", 0)

\* the state's verdict, "none" while the key is absent
Verdict == Get(state, "fact_check_status", "none")

\* C1: whatever the collaborators do, also when every fact-check fails, the
\* job eventually reaches DONE or ABORTED instead of looping between write
\* and fact_check forever.
C1_Terminates == <>Terminal

C1_Witness == Terminal /\ failVerdicts = max_iterations /\ Verdict = "fail"

\* C2: in one job the write node runs at most 3 times and the fact_check
\* node runs at most 3 times.
C2_StageRunsBounded == writeRuns <= max_iterations /\ verifyRuns <= max_iterations

C2_Witness == pc = "polish" /\ writeRuns = 3 /\ verifyRuns = 3

\* C3: every job that ends DONE returns a non-empty content (and has a
\* non-empty final_content), whatever the generation collaborator returned.
C3_NonEmptyFinal ==
    pc = "DONE" =>
        /\ Get(state, "final_content", <<>>) # <<>>
        /\ response[1].content # <<>>

\* C4: when a fact_check execution completes, the next node is polish if the
\* verdict is pass, else write if the iteration counter is below 3, else
\* polish.
C4_RoutingAfterVerify ==
    [][(pc = "fact_check" /\ pc' # "ABORTED") =>
          pc' = IF Verdict' = "pass" THEN "polish"
                ELSE IF Iterations' < 3 THEN "write"
                ELSE "polish"]_vars

C4_Witness == pc = "polish" /\ Verdict = "fail" /\ Iterations = 3

C7_AlwaysFailCompletes ==
    <>(\/ failVerdicts # verifyRuns
       \/ pc = "ABORTED"
       \/ (pc = "DONE" /\ "final_content" \in DOMAIN state /\ Iterations = 3))

C7_Witness == pc = "DONE" /\ failVerdicts = verifyRuns /\ Iterations = 3

\* C8: a job that completes with a fail verdict (retry bound exhausted)
\* returns status success-degraded and a metadata flag degraded.
C8_DegradedIsMarked ==
    (pc = "DONE" /\ Verdict = "fail") =>
        /\ response[1].status = <<"success-degraded">>
        /\ "degraded" \in DOMAIN response[1].metadata[1]

\* C9: a job with an empty topic is aborted by the research node, and the
\* response carries an error status that names the missing topic.
C9_EmptyTopicAborts ==
    (request.topic = <<>> /\ pc \notin {"generate_content", "research"}) =>
        /\ pc = "ABORTED"
        /\ response[1].status = <<"error", "Topic is required for research">>
        /\ response[1].content = <<>>

C9_Witness == pc = "ABORTED" /\ request.topic = <<>> /\ response # <<>>

\* C10: a node that raises aborts the job in the same step: the response is
\* an error with empty content, final_content is not set, the posts row gets
\* no final text, and nothing runs after the abort.
C10_FatalAborts ==
    [][/\ pc' = "ABORTED" =>
            /\ "final_content" \notin DOMAIN state'
            /\ response'[1].status[1] = "error"
            /\ response'[1].content = <<>>
            /\ final_post' \in {<<>>, << <<>> >>}
       /\ pc = "ABORTED" => UNCHANGED vars]_vars

C10_Witness == pc = "ABORTED" /\ writeRuns > 0 /\ "draft_content" \in DOMAIN state

\* the research data, the draft, the checked text and the final text of the
\* state, empty while the key is absent
ResearchData == Get(state, "research_data", FailedSearchData)
Draft == Get(state, "draft_content", <<>>)
Checked == Get(state, "fact_checked_content", <<>>)
Final == Get(state, "final_content", <<>>)

\* the last call of the generation collaborator gave no answer the agent
\* could use: no client, an exception, or a message without content
CallFailed == lastCall \in {"unavailable", "raise", "none"}

\* C11: a search that fails never aborts the job: for every topic that is
\* not empty the research node completes and hands over to write, and after
\* a failed search the findings of research_data are empty.
C11_FailedSearchContinues ==
    [][(pc = "research" /\ Get(state, "topic", <<>>) # <<>>) =>
            /\ pc' = "write"
            /\ "research_data" \in DOMAIN state'
            /\ ~state'["research_data"]["search_successful"] =>
                    state'["research_data"]["findings"] = <<>>]_vars

C11_Witness ==
    /\ pc = "write"
    /\ "research_data" \in DOMAIN state
    /\ ~ResearchData["search_successful"]
    /\ ResearchData["findings"] = <<>>

\* C12: after every run of the write node draft_content is not empty, also
\* when the collaborator returned an empty or a blank text.
C12_DraftNonEmpty == writeRuns > 0 => Draft # <<>>

\* C13: the write node and the polish node never abort the job, whatever
\* the generation collaborator does: each completes and stores its text.
C13_DraftRefineNeverAbort ==
    [][/\ pc = "write" => (pc' = "fact_check" /\ "draft_content" \in DOMAIN state')
       /\ pc = "polish" => (pc' = "END" /\ "final_content" \in DOMAIN state')]_vars

C13_Witness ==
    /\ pc = "fact_check"
    /\ lastCall \in {"raise", "none"}
    /\ "draft_content" \in DOMAIN state

\* C14: whenever the collaborator of fact_check fails (no client, an
\* exception, an answer that is not JSON, or JSON with missing or wrongly
\* typed fields such as a null issues list), the node does not abort the
\* job and yields the verdict fail with fact_checked_content equal to the
\* draft.
C14_VerifyFailureDegrades ==
    [][pc = "fact_check" =>
            /\ pc' # "ABORTED"
            /\ lastCall' \in {"unavailable", "raise", "none"} =>
                    /\ Get(state', "fact_check_status", "none") = "fail"
                    /\ Get(state', "fact_checked_content", <<>>) = Draft]_vars

\* C15: after every run of the fact_check node fact_checked_content is not
\* empty; in particular no verdict pass comes with an empty text.
C15_CheckedNonEmpty == verifyRuns > 0 => Checked # <<>>

\* C16: the polish node works on fact_checked_content when that is not
\* blank and not 'N/A', otherwise on draft_content; when the collaborator is
\* unavailable or fails, final_content is that working text unchanged.
C16_FallbackIsWorkingText ==
    [][(pc = "polish" /\ pc' = "END"
            /\ lastCall' \in {"unavailable", "raise", "none"}) =>
            state'["final_content"] =
                IF Checked # <<>> /\ Strip(Checked) # <<>> /\ Checked # <<"N/A">>
                THEN Checked ELSE Draft]_vars

C16_Witness ==
    /\ pc = "END"
    /\ CallFailed
    /\ Checked # Draft
    /\ Final = Checked

\* C17: final_content is written at most once in a job, and only when the
\* verdict is pass or the iteration counter has reached 3; it is never
\* written while the conditional edge would still allow a rewrite.
C17_FinalWrittenOnce ==
    [][/\ ("final_content" \in DOMAIN state' /\ "final_content" \notin DOMAIN state) =>
            (Verdict = "pass" \/ Iterations >= max_iterations)
       /\ "final_content" \in DOMAIN state =>
            (pc # "polish" /\ state'["final_content"] = state["final_content"])]_vars

C17_Witness ==
    /\ "final_content" \in DOMAIN state
    /\ Verdict = "fail"
    /\ Iterations = max_iterations

\* C18: when the generation collaborator raises on every call of a job
\* whose topic is not empty, the job reaches DONE, and the content returned
\* is the error text the writer builds from the topic and the PRD:
\* fact_check and polish hand that text on unchanged.
C18_AlwaysRaisingFallsBack ==
    <>(\/ ~onlyRaised
       \/ request.topic = <<>>
       \/ /\ pc = "DONE"
          /\ lastCall = "raise"
          /\ Draft = WriterErrorText(_extract_prd(state), request.topic)
          /\ Checked = Draft
          /\ Final = Draft
          /\ response[1].content = Draft)

C18_Witness ==
    /\ pc = "DONE"
    /\ onlyRaised
    /\ lastCall = "raise"
    /\ verifyRuns = max_iterations
    /\ response[1].content = WriterErrorText(_extract_prd(state), request.topic)

\* C19: no exception of a collaborator leaves generate_content: whenever
\* the handler is over it has returned a response that carries a status,
\* after a degraded continuation ("success") or after an abort ("error").
C19_AlwaysAResponse ==
    pc \notin {"generate_content", "research", "write", "fact_check", "polish", "END"} =>
        /\ pc \in {"DONE", "ABORTED"}
        /\ response # <<>>
        /\ response[1].status # <<>>
        /\ response[1].status[1] \in {"success", "error"}

C19_Witness ==
    /\ pc = "ABORTED"
    /\ lastCall = "answered"
    /\ writeRuns > 0
    /\ response[1].status[1] = "error"

Nodes == {"research", "write", "fact_check", "polish"}

\* the state keys each node assigns before it returns
OwnFields(node) ==
    CASE node = "research" -> {"research_data"}
      [] node = "write" -> {"draft_content"}
      [] node = "fact_check" ->
            {"fact_checked_content", "fact_check_status", "fact_check_iterations"}
      [] node = "polish" -> {"final_content", "metadata"}

\* C22: an insert into agent_logs that fails is swallowed: the node whose
\* logging failed still stores its outputs, the edge after fact_check still
\* follows the verdict and the counter, and the job is not aborted.
C22_SinkFailureSwallowed ==
    [][(pc \in Nodes /\ lastLog'.kind = "failed") =>
            /\ pc' # "ABORTED"
            /\ OwnFields(pc) \subseteq DOMAIN state'
            /\ pc = "research" => pc' = "write"
            /\ pc = "write" => pc' = "fact_check"
            /\ pc = "fact_check" =>
                    pc' = IF \/ state'["fact_check_status"] = "pass"
                             \/ state'["fact_check_iterations"] >= max_iterations
                          THEN "polish" ELSE "write"
            /\ pc = "polish" => pc' = "END"]_vars

C22_Witness ==
    /\ pc = "DONE"
    /\ lastLog.kind = "failed"
    /\ lastLog.agent = "polisher"
    /\ response[1].status = <<"success">>

\* C23: without a Supabase client, and when the insert or the update of the
\* post fails, the job still runs: the handler starts the workflow with the
\* request's fields and returns the final content with status success.
C23_PersistenceOptional ==
    [][/\ pc = "generate_content" =>
            /\ pc' = "research"
            /\ state'["topic"] = request.topic
            /\ state'["prd"] = request.prd
            /\ state'["fact_check_iterations"] = 0
       /\ pc = "END" =>
            /\ pc' = "DONE"
            /\ response'[1].content = Final
            /\ response'[1].status = <<"success">>]_vars

C23_Witness ==
    /\ pc = "DONE"
    /\ supabase
    /\ post_id # <<>>
    /\ Final # <<>>
    /\ final_post = << <<>> >>

\* C24: the nodes of a job run one after the other in the order of the
\* graph: research first, fact_check only after write, write only after
\* research or after a fact_check with verdict fail, polish only after
\* fact_check, and the handler returns only after polish.
C24_StageOrder ==
    [][pc' # pc =>
            /\ pc' = "research" => pc = "generate_content"
            /\ pc' = "write" =>
                    \/ pc = "research"
                    \/ pc = "fact_check" /\ state'["fact_check_status"] = "fail"
            /\ pc' = "fact_check" => pc = "write"
            /\ pc' = "polish" => pc = "fact_check"
            /\ pc' = "END" => pc = "polish"
            /\ pc' = "DONE" => pc = "END"]_vars

C24_Witness ==
    /\ pc = "DONE"
    /\ writeRuns = 2
    /\ verifyRuns = 2

\* C25: research runs once, before the first write: no later step returns
\* to research, every later position has research_data, and research_data is
\* never written again.
C25_ResearchOnce ==
    [][/\ pc' = "research" => pc = "generate_content"
       /\ pc' \in {"write", "fact_check", "polish", "END", "DONE"} =>
            "research_data" \in DOMAIN state'
       /\ "research_data" \in DOMAIN state =>
            /\ "research_data" \in DOMAIN state'
            /\ (state'["research_data"] = state["research_data"])]_vars

C25_Witness ==
    /\ pc = "write"
    /\ verifyRuns = 2
    /\ ResearchData["findings"] # <<>>

\* C26: write, fact_check and polish leave every key of the state alone
\* except their own outputs: draft_content for write; fact_checked_content,
\* fact_check_status and fact_check_iterations for fact_check; final_content
\* and metadata for polish.
C26_StagesWriteOwnFields ==
    [][(pc \in {"write", "fact_check", "polish"}) =>
            \A k \in (DOMAIN state \cup DOMAIN state') \ OwnFields(pc) :
                /\ k \in DOMAIN state
                /\ k \in DOMAIN state'
                /\ (state'[k] = state[k])]_vars

C26_Witness ==
    /\ pc = "END"
    /\ Checked # Draft
    /\ Final # Checked
    /\ ResearchData["findings"] # <<>>

\* the keys under which a state could hold the issues of a check
IssueKeys == {"issues", "fact_check_issues", "verify_issues"}

\* C27: after every run of fact_check the state holds the issues found in
\* that run, next to fact_checked_content and fact_check_status.
C27_IssuesInState ==
    verifyRuns > 0 =>
        /\ {"fact_checked_content", "fact_check_status"} \subseteq DOMAIN state
        /\ DOMAIN state \cap IssueKeys # {}

\* C29: every row an agent inserts into agent_logs carries the post_id of
\* the job.
C29_LogsCarryPostId ==
    (lastLog.kind = "entry" /\ post_id # <<>>) => lastLog.post_id = post_id

\* C28: the fact-checker uses the lenient prompt exactly when the findings
\* of research_data are empty, and a prompt that checks against the
\* research otherwise, in the synchronous and in the asynchronous node.
C28_LenientIffNoFindings ==
    probe # <<>> =>
        (probe[1].prompt = "lenient" <=> ResearchData["findings"] = <<>>)

\* what request j produces when it runs alone with the same collaborators:
\* its state has its own topic and post id, research data for its own
\* topic, the writer's error text for that topic, and the handler returns
\* that text
OwnJobData(j) ==
    LET rec == jobs[j]
        st == rec.state
        topic == JobRequest(j).topic
        text == WriterErrorText(_extract_prd(st), topic)
    IN  /\ st # NoState =>
              /\ st["topic"] = topic
              /\ st["post_id"] = JobPostId(j)
        /\ "research_data" \in DOMAIN st => st["research_data"]["topic"] = topic
        /\ "draft_content" \in DOMAIN st => st["draft_content"] = text
        /\ "fact_checked_content" \in DOMAIN st => st["fact_checked_content"] = text
        /\ "final_content" \in DOMAIN st => st["final_content"] = text
        /\ rec.pc = "DONE" =>
              /\ rec.response[1].content = text
              /\ rec.response[1].status = <<"success">>
              /\ rec.final_post = <<text>>

\* C21: with requests running side by side on the one workflow and the one
\* set of agents, a step of one request changes nothing of another request,
\* and under every interleaving each request's state and response are what
\* the request produces alone.
C21_JobsIsolated ==
    [][\A j \in JobIds :
            /\ jobs'[j] # jobs[j] => \A k \in JobIds \ {j} : jobs'[k] = jobs[k]
            /\ OwnJobData(j)']_vars

C21_Witness ==
    /\ \A j \in JobIds : jobs[j].pc = "DONE"
    /\ jobs["a"].response[1].content # jobs["b"].response[1].content
    /\ Len(agent_logs) >= 3
    /\ agent_logs[1].job = "a"
    /\ agent_logs[2].job = "b"
    /\ agent_logs[3].job = "a"

\* s is t with some elements left out
RECURSIVE IsSubseq(_, _)
IsSubseq(s, t) ==
    IF s = <<>> THEN TRUE
    ELSE IF t = <<>> THEN FALSE
    ELSE IF Head(s) = Head(t) THEN IsSubseq(Tail(s), Tail(t))
    ELSE IsSubseq(s, Tail(t))

\* the agents of the rows request j inserted, in the order of the table
AgentsLogged(j) ==
    LET rows == SelectSeq(agent_logs, LAMBDA r : r.job = j)
    IN  [i \in 1..Len(rows) |-> rows[i].agent]

\* C30: the rows of one request are in the table in the order in which the
\* request's nodes ran, also when the rows of several requests interleave.
C30_LogOrderPerJob ==
    \A j \in JobIds : IsSubseq(AgentsLogged(j), jobs[j].trail)

C30_Witness ==
    /\ Len(agent_logs) = 8
    /\ agent_logs[1].job = "b"
    /\ agent_logs[2].job = "a"
    /\ agent_logs[7].job = "b"
    /\ agent_logs[8].job = "a"
    /\ agent_logs[8].agent = "polisher"

\* C31: in every state of a job, whose counter starts at 0, the iteration
\* counter is at least 0 and at most 3.
C31_IterationsInRange ==
    /\ Iterations >= 0
    /\ Iterations <= max_iterations
    /\ (pc = "research" => Get(state, "fact_check_iterations", 1) = 0)

C31_Witness == pc = "END" /\ Iterations = max_iterations /\ Verdict = "pass"

C33_RequestIgnoresVerify ==
    (probe # <<>> /\ jobs["twin"].asked) =>
        probe[1].request = jobs["twin"].request

C33_Witness ==
    /\ probe # <<>>
    /\ jobs["twin"].asked
    /\ probe[1].request # <<>>
    /\ "fact_check_status" \notin DOMAIN state
    /\ Get(jobs["twin"].state, "fact_check_iterations", 0) = 2
    /\ Get(jobs["twin"].state, "fact_checked_content", <<>>) = <<"v">>

\* C34: polish starts only right after a fact_check: the step that leads to
\* polish is a fact_check execution on the draft the state holds, and
\* fact_checked_content and fact_check_status are what that execution made
\* of this draft; every write is followed by a fact_check before polish, so
\* polish never gets a text checked against an older draft.
C34_PolishAfterVerifyOfDraft ==
    /\ [](pc = "polish" => verifyRuns = writeRuns)
    /\ [][pc' = "polish" =>
            /\ pc = "fact_check"
            /\ Draft' = Draft
            /\ \E llm \in CheckOutcomes :
                 LET checked == _fact_check_content_async(Draft', llm)
                 IN  /\ Checked' = checked.content
                     /\ Verdict' = checked.status]_vars

C34_Witness ==
    /\ pc = "polish"
    /\ writeRuns = 2
    /\ verifyRuns = 2
    /\ Checked = <<"v">>
    /\ Draft # <<"v">>

\* C35: the update of the posts row is executed at most once per job, only
\* when the workflow has ended and the handler returns DONE, only with a
\* non-empty final text and only for a job whose insert returned a post id;
\* for an ABORTED job it is never executed and the row the insert made keeps
\* its empty final_post.
C35_UpdateOnceAfterDone ==
    /\ updates <= 1
    /\ updates = 1 => /\ pc = "DONE"
                      /\ Final # <<>>
                      /\ post_id # <<>>
    /\ final_post \notin {<<>>, << <<>> >>} => (updates = 1 /\ final_post = <<Final>>)
    /\ pc = "ABORTED" => /\ updates = 0
                         /\ final_post \in {<<>>, << <<>> >>}

C35_Witness ==
    /\ pc = "DONE"
    /\ updates = 1
    /\ final_post = <<Final>>
    /\ verifyRuns = 2

\* the collaborator answered with an object whose status is 'pass' or 'fail'
\* in any case of the letters
IsVerdict(p) ==
    /\ p.kind = "object"
    /\ p.verdict.t = "str"
    /\ Lower(p.verdict.v) \in {<<"pass">>, <<"fail">>}

\* C36: after a completed fact_check the recorded status is exactly "pass" or
\* "fail": a verdict of the collaborator that is not 'pass' or 'fail'
\* (compared without regard to case), or that is missing, is recorded as
\* "fail"; and the conditional edge treats a state without a status like a
\* state with the status "fail".
C36_StatusPassOrFail ==
    /\ (probe # <<>> /\ probe[1].completed) =>
          /\ probe[1].status \in {"pass", "fail"}
          /\ ~IsVerdict(probe[1]) => probe[1].status = "fail"
    /\ "fact_check_status" \notin DOMAIN state
    /\ \A n \in 0..max_iterations :
          should_continue_to_polish(Put(state, "fact_check_iterations", n)) =
          should_continue_to_polish(
              Put(Put(state, "fact_check_iterations", n), "fact_check_status", "fail"))

C36_Witness ==
    /\ probe # <<>>
    /\ probe[1].completed
    /\ ~probe[1].sync
    /\ probe[1].verdict = JStr(<<"unsure">>)
    /\ probe[1].status = "fail"

\* C37: without a client for the generation collaborator the fact_check
\* returns "pass" with the draft as checked text and calls nothing, so a job
\* with a topic reaches DONE after exactly one write and one fact_check, and
\* the final text is the text the writer builds without a client.
C37_NoClientOnePass ==
    /\ [](~async_client =>
            /\ writeRuns <= 1
            /\ verifyRuns <= 1
            /\ verifyRuns = 1 => /\ Verdict = "pass"
                                 /\ Checked = Draft
                                 /\ lastCall = "unavailable")
    /\ <>(\/ async_client
          \/ request.topic = <<>>
          \/ /\ pc = "DONE"
             /\ writeRuns = 1
             /\ verifyRuns = 1
             /\ Draft = WriterUnavailableText(_extract_prd(state), request.topic)
             /\ Final = Draft
             /\ response[1].content = Draft)

C37_Witness ==
    /\ pc = "DONE"
    /\ ~async_client
    /\ writeRuns = 1
    /\ verifyRuns = 1
    /\ Verdict = "pass"
    /\ response[1].content = WriterUnavailableText(_extract_prd(state), request.topic)

\* C38: the workflow of create_workflow and the workflow of
\* create_workflow_async, invoked on the same state and given the same
\* outcomes of the collaborators, run the same nodes in the same order and
\* hold the same state after every node, so they end with the same
\* draft_content, fact_checked_content, fact_check_status,
\* fact_check_iterations and final_content, or raise the same error.
C38_SyncAsyncEquivalent ==
    /\ jobs["sync"].trail = jobs["async"].trail
    /\ jobs["sync"].pc = jobs["async"].pc
    /\ jobs["sync"].error = jobs["async"].error
    /\ jobs["sync"].state = jobs["async"].state
    /\ \A k \in {"draft_content", "fact_checked_content", "fact_check_status",
                 "fact_check_iterations", "final_content"} :
          /\ (k \in DOMAIN jobs["sync"].state) = (k \in DOMAIN jobs["async"].state)
          /\ k \in DOMAIN jobs["sync"].state =>
                jobs["sync"].state[k] = jobs["async"].state[k]

C38_Witness ==
    /\ jobs["sync"].pc = "END"
    /\ jobs["async"].pc = "END"
    /\ async_client
    /\ jobs["async"].trail = <<"research", "write", "fact_check", "write",
                               "fact_check", "polish">>
    /\ jobs["sync"].state["final_content"] = <<"f">>
====
